---- MODULE Spec2Model ----
(***************************************************************************)
(* Interunit loan reconciliation: the matching pipeline of                 *)
(* ExcelTransactionMatcher (interunit_loan_matcher.py), the GUI worker     *)
(* MatchingThread (matching_thread.py) with its host MainWindow            *)
(* (main_window.py), the stand-alone strategy classes and the annotation   *)
(* step create_matched_files.                                              *)
(*                                                                         *)
(* Conventions.  Transaction rows carry their DataFrame index (0-based,    *)
(* DataFrame index i is Excel row i + 10); a grid is a sequence of rows,   *)
(* RowAt(F, i) is the row with DataFrame index i.  A text cell is a        *)
(* sequence of words plus a count of trailing blanks.  An amount cell is   *)
(* 0 when empty (NaN), n > 0 when it holds the number n (in units of       *)
(* 0.005, so that 0.01 is two units) and -1 when it holds text that is no  *)
(* number.  A match id is a sequence of characters.                        *)
(***************************************************************************)
EXTENDS Integers, Sequences, FiniteSets, TLC

VARIABLES
    files,        \* <<File 1, File 2>>: the two workbooks on disk
    numeric,      \* TRUE iff the loader keeps amount cells numeric (converters={0: str}), FALSE for dtype=str
    pc,           \* position of the running pipeline / worker thread
    run,          \* number of the current run on this matcher / host
    matcher,      \* ExcelTransactionMatcher: loaded frames, caches, indexes, arrays
    found,        \* per-strategy match lists of the current run
    all_matches,  \* the combined match list of the current run
    results,      \* match lists returned by completed runs, in order
    out,          \* create_matched_files: the Match ID / Audit Info / Match Type columns and its progress
    thread,       \* MatchingThread: is_cancelled, cancel position, running flag
    signals,      \* signals emitted by the worker thread, in order
    host          \* MainWindow: current_matches, delivered results, exports

vars == <<files, numeric, pc, run, matcher, found, all_matches, results, out, thread, signals, host>>

(***************************************************************************)
(* Bounds of the model                                                     *)
(***************************************************************************)
MaxBlocks == 2      \* blocks per input file
MaxRuns == 2        \* runs of the pipeline on the same inputs
MaxPerStrategy == 2 \* matches per strategy in the short lists handed to the id assignment
LargeK == 1000      \* length of the long lists handed to the id assignment

(***************************************************************************)
(* Program constants                                                       *)
(***************************************************************************)
IdWidth == 3            \* f"M{match_counter:03d}"
NarrationMinLen == 10   \* len(narration) > 10 / len(narration1) < 10
ToleranceUnits == 2     \* abs(lender_amount - borrower_amount) < 0.01, in units of 0.005

None == <<>>            \* Python None (and the empty string) for a field holding words or characters
MetadataRows == 8       \* metadata = full_df.iloc[0:8, :]
NaN == 0                \* empty amount cell: pd.notna(x) fails and the cell counts as '0'

Strategies == <<"Narration", "LC", "PO", "Interunit", "USD">>
StrategyRank(t) == CHOOSE i \in 1..Len(Strategies) : Strategies[i] = t

(***************************************************************************)
(* Generic helpers                                                         *)
(***************************************************************************)
Range(s) == {s[i] : i \in DOMAIN s}
Min(a, b) == IF a <= b THEN a ELSE b
Abs(x) == IF x < 0 THEN -x ELSE x

RECURSIVE SeqSum(_)
SeqSum(s) == IF s = <<>> THEN 0 ELSE Head(s) + SeqSum(Tail(s))

RECURSIVE Flatten(_)
Flatten(ss) == IF ss = <<>> THEN <<>> ELSE Head(ss) \o Flatten(Tail(ss))

RECURSIVE AscSeq(_)
\* the numbers of S in ascending order
AscSeq(S) ==
    IF S = {} THEN <<>>
    ELSE LET m == CHOOSE x \in S : \A y \in S : x <= y
         IN <<m>> \o AscSeq(S \ {m})

\* the pairs <<x, y>> in the order of "for x in xs: for y in ys"
PairSeq(xs, ys) == Flatten([i \in DOMAIN xs |-> [j \in DOMAIN ys |-> <<xs[i], ys[j]>>]])

(***************************************************************************)
(* Text cells                                                              *)
(***************************************************************************)
Text(words, trailing) == [toks |-> words, trail |-> trailing]
Blank == Text(<<>>, 0)                       \* an empty cell

\* str(value) of a cell read by pandas: an empty cell is NaN and prints as "nan"
Str(t) == IF t.toks = <<>> THEN Text(<<"nan">>, 0) ELSE t
\* str.strip()
Strip(t) == Text(t.toks, 0)
\* len(str)
TextLen(t) ==
    IF t.toks = <<>> THEN t.trail
    ELSE SeqSum([i \in DOMAIN t.toks |-> Len(t.toks[i])]) + (Len(t.toks) - 1) + t.trail
\* narration.lower() in ['nan', 'none', '']
IsNanNoneEmpty(t) == t.toks = <<>> \/ t.toks \in {<<"nan">>, <<"none">>, <<"NaN">>, <<"None">>, <<"NONE">>, <<"NAN">>}
\* narration.startswith('Dr') / startswith('Cr')
StartsWithDrCr(t) == t.toks # <<>> /\ t.toks[1] \in {"Dr", "Cr", "Dr.", "Cr."}

(***************************************************************************)
(* Reference extraction (regular expressions over the words of a cell)     *)
(***************************************************************************)
\* words matched by LC_PATTERN  \b(?:L/C|LC)[-\s]?\d+[/\s]?\d*\b
LCWords == {"L/C-123/45", "LC-77"}
\* words matched by PO_PATTERN  (?:^|\s)([A-Z0-9/]+/PO/[A-Z0-9/]+)(?:\s|$|[,\.])
POWords == {"ABC/PO/2024/1/001", "ABC/PO/2024/1/002"}
\* words matched by USD_PATTERN (a currency marker next to digits)
USDWords == {"USD500", "USD750"}
\* words matched by ([A-Z]{2,4})#(\d{4,6})
CodeWords == {"GEO#1234", "STL#5678", "PLE#9012"}

\* str.upper() on the words the inputs use
Upper(w) ==
    CASE w = "lc-77" -> "LC-77"
      [] w = "usd500" -> "USD500"
      [] OTHER -> w

RECURSIVE FirstWordIn(_, _)
\* pattern.findall(text.upper())[0], or None
FirstWordIn(words, Pattern) ==
    IF words = <<>> THEN None
    ELSE IF Upper(Head(words)) \in Pattern THEN <<Upper(Head(words))>>
    ELSE FirstWordIn(Tail(words), Pattern)

(***************************************************************************)
(* Rows, blocks and workbooks                                              *)
(***************************************************************************)
HeaderRow(side, amt, ledger) ==
    [date |-> TRUE, part |-> side, c |-> ledger, bold |-> TRUE, italic |-> FALSE,
     vchType |-> TRUE, vchNo |-> TRUE,
     debit |-> IF side = "Dr" THEN amt ELSE NaN,
     credit |-> IF side = "Cr" THEN amt ELSE NaN, amtBold |-> TRUE]

NarrationRow(text) ==
    [date |-> FALSE, part |-> "", c |-> text, bold |-> FALSE, italic |-> TRUE,
     vchType |-> FALSE, vchNo |-> FALSE, debit |-> NaN, credit |-> NaN, amtBold |-> FALSE]

TrailerRow(name) ==
    [date |-> FALSE, part |-> "Entered By :", c |-> name, bold |-> TRUE, italic |-> TRUE,
     vchType |-> FALSE, vchNo |-> FALSE, debit |-> NaN, credit |-> NaN, amtBold |-> FALSE]

\* one posted entry: header row, narration row and (unless the export lost it) trailer row
BlockRows(b) ==
    <<HeaderRow(b.side, b.amt, b.led), NarrationRow(b.nar)>>
    \o (IF b.tr THEN <<TrailerRow(Text(<<"Clerk">>, 0))>> ELSE <<>>)

\* top: the sheet rows above the first transaction row (8 metadata rows and
\* the column-header row in a complete export)
Workbook(blocks) ==
    [ok |-> TRUE,
     top |-> MetadataRows + 1,
     hdrC |-> Text(<<"Description">>, 0),       \* column C of Excel row 9, the column-header row
     rows |-> Flatten([i \in DOMAIN blocks |-> BlockRows(blocks[i])])]

\* a path pandas cannot open
Unreadable == [ok |-> FALSE, top |-> 0, hdrC |-> Blank, rows |-> <<>>]
\* a sheet of 8 rows: the metadata and nothing below it
ShortFile == [ok |-> TRUE, top |-> MetadataRows, hdrC |-> Blank, rows |-> <<>>]

NRows(F) == Len(F.rows)
\* len(full_df): the rows pd.read_excel(header=None) returns
SheetRows(F) == F.top + NRows(F)
RowAt(F, i) == F.rows[i + 1]
\* ws.max_row of the workbook: 9 header rows and then the transaction rows
MaxRow(F) == 9 + NRows(F)

\* ledger account names and the narrations that quote short codes
LedGEO == Text(<<"GEO-TEXTILE-UNIT">>, 0)
LedSTL == Text(<<"STEEL-UNIT">>, 0)
LedPLE == Text(<<"POLE-UNIT-LEDGER">>, 0)
NarToGEO == Text(<<"Loan", "GEO#1234", "L/C-123/45">>, 0)
NarToSTLPLE == Text(<<"Loan", "STL#5678", "PLE#9012", "USD500">>, 0)
NarRecvGEO == Text(<<"Received", "GEO#1234">>, 0)
NarPO == Text(<<"Bill", "ABC/PO/2024/1/001", "lc-77">>, 1)

Block(side, amt, led, nar, tr) == [side |-> side, amt |-> amt, led |-> led, nar |-> nar, tr |-> tr]

\* the block shapes the input files are built from
BlockLibrary ==
    { Block("Dr", 4, LedGEO, NarToSTLPLE, TRUE),
      Block("Cr", 4, LedSTL, NarRecvGEO, TRUE),
      Block("Cr", 4, LedPLE, NarRecvGEO, TRUE),
      Block("Dr", 4, LedGEO, NarToGEO, FALSE),
      Block("Cr", 4, LedGEO, NarToGEO, FALSE),
      Block("Cr", 5, LedGEO, NarPO, TRUE),
      Block("Dr", 5, LedGEO, NarToSTLPLE, TRUE),
      Block("Cr", 4, LedSTL, NarRecvGEO, FALSE),
      Block("Cr", 5, LedSTL, NarRecvGEO, FALSE) }

BlockLists(n) == UNION {[1..k -> BlockLibrary] : k \in 1..n}
InputFiles == {Workbook(bs) : bs \in BlockLists(MaxBlocks)}

\* the worked examples of the documentation: a payment and its settlement
\* under one L/C, and one bill of two purchase orders settled in two halves
NarPayment == Text(<<"Payment", "against", "L/C-123/45", "for", "steel">>, 0)
NarSettlement == Text(<<"Settlement", "of", "L/C-123/45">>, 0)
NarTwoPO == Text(<<"Bill", "ABC/PO/2024/1/001", "ABC/PO/2024/1/002">>, 0)
NarFirstPO == Text(<<"Part", "ABC/PO/2024/1/001">>, 0)
NarSecondPO == Text(<<"Part", "ABC/PO/2024/1/002">>, 0)
LCExample ==
    << Workbook(<<Block("Dr", 5000, LedSTL, NarPayment, TRUE)>>),
       Workbook(<<Block("Cr", 5000, LedGEO, NarSettlement, TRUE)>>) >>
POExample ==
    << Workbook(<<Block("Dr", 1000, LedSTL, NarTwoPO, TRUE)>>),
       Workbook(<<Block("Cr", 500, LedGEO, NarFirstPO, TRUE),
                  Block("Cr", 500, LedGEO, NarSecondPO, TRUE)>>) >>
\* an export that prints the purchase orders in the header cell, equal amounts
POHeaderExample ==
    << Workbook(<<Block("Dr", 1000, NarTwoPO, NarTwoPO, TRUE)>>),
       Workbook(<<Block("Cr", 1000, Text(<<"Paid", "ABC/PO/2024/1/001", "ABC/PO/2024/1/002">>, 0),
                        NarTwoPO, TRUE)>>) >>
Examples == {LCExample, POExample, POHeaderExample}

(***************************************************************************)
(* TransactionBlockIdentifier                                              *)
(***************************************************************************)
\* is_block_start: date + Dr/Cr + Vch Type (bold) + Vch No. + bold debit or credit
IsBlockStart(r) ==
    /\ r.date
    /\ r.part \in {"Dr", "Cr"}
    /\ r.vchType
    /\ r.vchNo
    /\ ((r.debit # NaN /\ r.amtBold) \/ (r.credit # NaN /\ r.amtBold))

IsBlockEnd(r) == r.part = "Entered By :"

RECURSIVE IdentifyLeavingTrailerOut(_, _, _, _, _)
\* the scan with a trailer row closing the block before it instead of with it
IdentifyLeavingTrailerOut(F, i, blocks, cur, inb) ==
    IF i >= NRows(F)
    THEN (IF inb /\ cur # <<>> THEN Append(blocks, cur) ELSE blocks)
    ELSE LET r == RowAt(F, i) IN
         IF IsBlockStart(r)
         THEN IdentifyLeavingTrailerOut(F, i + 1, IF inb /\ cur # <<>> THEN Append(blocks, cur) ELSE blocks, <<i>>, TRUE)
         ELSE IF inb
              THEN (IF IsBlockEnd(r)
                    THEN IdentifyLeavingTrailerOut(F, i + 1, Append(blocks, cur), <<>>, FALSE)
                    ELSE IdentifyLeavingTrailerOut(F, i + 1, blocks, Append(cur, i), TRUE))
              ELSE IdentifyLeavingTrailerOut(F, i + 1, blocks, cur, inb)

RECURSIVE IdentifyRunningOn(_, _, _, _, _)
\* the scan with a block start also appended to the block it closes
IdentifyRunningOn(F, i, blocks, cur, inb) ==
    IF i >= NRows(F)
    THEN (IF inb /\ cur # <<>> THEN Append(blocks, cur) ELSE blocks)
    ELSE LET r == RowAt(F, i) IN
         IF IsBlockStart(r)
         THEN IdentifyRunningOn(F, i + 1, IF inb /\ cur # <<>> THEN Append(blocks, Append(cur, i)) ELSE blocks, <<i>>, TRUE)
         ELSE IF inb
              THEN (IF IsBlockEnd(r)
                    THEN IdentifyRunningOn(F, i + 1, Append(blocks, Append(cur, i)), <<>>, FALSE)
                    ELSE IdentifyRunningOn(F, i + 1, blocks, Append(cur, i), TRUE))
              ELSE IdentifyRunningOn(F, i + 1, blocks, cur, inb)

RECURSIVE IdentifyFrom(_, _, _, _, _)
\* the row loop of identify_transaction_blocks from row i on
IdentifyFrom(F, i, blocks, cur, inb) ==
    IF i >= NRows(F)
    THEN (IF inb /\ cur # <<>> THEN Append(blocks, cur) ELSE blocks)
    ELSE LET r == RowAt(F, i) IN
         IF IsBlockStart(r)
         THEN IdentifyFrom(F, i + 1, IF inb /\ cur # <<>> THEN Append(blocks, cur) ELSE blocks, <<i>>, TRUE)
         ELSE IF inb
              THEN (IF IsBlockEnd(r)
                    THEN IdentifyFrom(F, i + 1, Append(blocks, Append(cur, i)), <<>>, FALSE)
                    ELSE IdentifyFrom(F, i + 1, blocks, Append(cur, i), TRUE))
              ELSE IdentifyFrom(F, i + 1, blocks, cur, inb)

\* the blocks of a workbook, each a list of DataFrame indices
identify_transaction_blocks(F) == IdentifyFrom(F, 0, <<>>, <<>>, FALSE)

RECURSIVE BlockStartBackwards(_, _, _)
\* the backwards scan of get_transaction_block_rows, from row i down to Excel row 9 (index -1)
BlockStartBackwards(F, i, dflt) ==
    IF i < 0 THEN dflt
    ELSE IF IsBlockStart(RowAt(F, i)) THEN i
    ELSE BlockStartBackwards(F, i - 1, dflt)

RECURSIVE BlockRowsForward(_, _, _)
\* the forwards scan of get_transaction_block_rows from the block start
BlockRowsForward(F, start, i) ==
    IF i >= NRows(F) THEN <<>>
    ELSE LET r == RowAt(F, i) IN
         IF IsBlockEnd(r) THEN <<i>>
         ELSE IF IsBlockStart(r) /\ i > start THEN <<i>>
         ELSE <<i>> \o BlockRowsForward(F, start, i + 1)

get_transaction_block_rows(idx, F) ==
    LET start == BlockStartBackwards(F, idx, idx)
    IN BlockRowsForward(F, start, start)

(***************************************************************************)
(* ExcelTransactionMatcher: loading, amount index, extraction              *)
(***************************************************************************)
\* extract_amounts_from_strings: float(x) if x is all digits (and dots), else 0.0
ParseAmount(cell) == IF cell > 0 THEN cell ELSE 0
extract_amounts_from_strings(r) == <<ParseAmount(r.debit), ParseAmount(r.credit)>>

\* preprocess_all_amounts: one <<debit, credit>> per DataFrame index
preprocess_all_amounts(F) == [i \in 1..NRows(F) |-> extract_amounts_from_strings(F.rows[i])]

\* faulty variant: every row with the amount is listed on both sides
create_amount_index_unsided(cache) ==
    LET amts == {cache[i][1] : i \in DOMAIN cache} \cup {cache[i][2] : i \in DOMAIN cache}
        rows(a) == AscSeq({i - 1 : i \in {j \in DOMAIN cache : cache[j][1] = a \/ cache[j][2] = a}})
    IN [a \in amts \ {0} |-> [lenders |-> rows(a), borrowers |-> rows(a)]]

\* create_amount_index: amount |-> the lender and the borrower indices, in row order
create_amount_index(cache) ==
    LET amts == {cache[i][1] : i \in DOMAIN cache} \cup {cache[i][2] : i \in DOMAIN cache}
    IN [a \in amts \ {0} |->
          [lenders |-> AscSeq({i - 1 : i \in {j \in DOMAIN cache : cache[j][1] = a}}),
           borrowers |-> AscSeq({i - 1 : i \in {j \in DOMAIN cache : cache[j][2] = a}})]]

\* column C of Excel row r (r >= 9): row 9 is the column-header row
WorksheetC(F, r) == IF r = 9 THEN F.hdrC ELSE RowAt(F, r - 10).c

\* load_workbooks_and_extract_data_optimized, one series: the first pattern hit
\* of Excel row r is stored at DataFrame index r - 9
ExtractSeries(F, Pattern) ==
    [i \in 1..NRows(F) |-> FirstWordIn(WorksheetC(F, (i - 1) + 9).toks, Pattern)]

load_workbooks_and_extract_data_optimized(F1, F2) ==
    [lc |-> <<ExtractSeries(F1, LCWords), ExtractSeries(F2, LCWords)>>,
     po |-> <<ExtractSeries(F1, POWords), ExtractSeries(F2, POWords)>>,
     usd |-> <<ExtractSeries(F1, USDWords), ExtractSeries(F2, USDWords)>>,
     interunit |-> <<ExtractSeries(F1, CodeWords), ExtractSeries(F2, CodeWords)>>]

\* get_optimized_lc_numbers and its siblings: array[idx] if idx < len(array) else None
get_optimized(array, idx) == IF idx < Len(array) THEN array[idx + 1] ELSE None

\* interunit_account_mapping of InterunitLoanMatcher: full account name -> short code
interunit_account_mapping ==
    << <<"GEO-TEXTILE-UNIT", "GEO#1234">>,
       <<"STEEL-UNIT", "STL#5678">>,
       <<"POLE-UNIT-LEDGER", "PLE#9012">> >>

\* the short codes of the mapping found in a cell, in mapping order
LedgerCodes(cell) ==
    Flatten([k \in DOMAIN interunit_account_mapping |->
        IF interunit_account_mapping[k][1] \in {Upper(w) : w \in Range(cell.toks)}
        THEN <<interunit_account_mapping[k][2]>> ELSE <<>>])
NarrationCodes(cell) ==
    Flatten([k \in DOMAIN interunit_account_mapping |->
        IF interunit_account_mapping[k][2] \in Range(cell.toks)
        THEN <<interunit_account_mapping[k][2]>> ELSE <<>>])

\* _analyze_formatting_data for one block
AnalyzeBlock(F, block) ==
    LET amtRows == {k \in DOMAIN block : RowAt(F, block[k]).debit # NaN \/ RowAt(F, block[k]).credit # NaN}
        last == CHOOSE k \in amtRows : \A j \in amtRows : j <= k
    IN [block_rows |-> block,
        ledger_accounts |-> Flatten([k \in DOMAIN block |->
            LET r == RowAt(F, block[k]) IN
            IF r.c.toks # <<>> /\ r.bold /\ ~r.italic THEN LedgerCodes(r.c) ELSE <<>>]),
        narration_short_codes |-> Flatten([k \in DOMAIN block |->
            LET r == RowAt(F, block[k]) IN
            IF r.c.toks # <<>> /\ ~r.bold /\ r.italic THEN NarrationCodes(r.c) ELSE <<>>]),
        amounts |-> IF amtRows = {} THEN None
                    ELSE [debit |-> RowAt(F, block[last]).debit,
                          credit |-> RowAt(F, block[last]).credit,
                          row |-> block[last]]]

analyze_formatting_data(F, blocks) ==
    SelectSeq([k \in DOMAIN blocks |-> AnalyzeBlock(F, blocks[k])],
              LAMBDA b : b.ledger_accounts # <<>> \/ b.narration_short_codes # <<>>)

(***************************************************************************)
(* Match records.  detail is None when the match dictionary has no         *)
(* File1_Debit .. File2_Amount keys                                        *)
(***************************************************************************)
Match(type, i1, i2, ref, amount, detail) ==
    [match_id |-> None, Match_Type |-> type, File1_Index |-> i1, File2_Index |-> i2,
     Ref |-> ref, Amount |-> amount, detail |-> detail]

Detail(d1, c1, d2, c2, a1, a2) ==
    [File1_Debit |-> d1, File1_Credit |-> c1, File2_Debit |-> d2, File2_Credit |-> c2,
     File1_Amount |-> a1, File2_Amount |-> a2]

\* for amount in common_amounts: CPython walks a set of small floats in
\* ascending order of their hashes, and hash(float(n)) = n
common_amounts(m) == AscSeq(DOMAIN m.amount_index[1] \cap DOMAIN m.amount_index[2])

\* the candidate pairs <<File-1 index, File-2 index, amount>> of the optimized
\* matchers: per amount, File-1 lenders x File-2 borrowers, then File-2
\* lenders x File-1 borrowers (kept as <<File-1 index, File-2 index>>)
AmountPairs(m) ==
    LET ca == common_amounts(m)
        direct(a) == PairSeq(m.amount_index[1][a].lenders, m.amount_index[2][a].borrowers)
        reverse(a) == PairSeq(m.amount_index[2][a].lenders, m.amount_index[1][a].borrowers)
    IN Flatten([k \in DOMAIN ca |->
          [j \in DOMAIN direct(ca[k]) |-> <<direct(ca[k])[j][1], direct(ca[k])[j][2], ca[k]>>]
          \o [j \in DOMAIN reverse(ca[k]) |-> <<reverse(ca[k])[j][2], reverse(ca[k])[j][1], ca[k]>>]])

\* find_lc_matches_optimized / find_po_matches_optimized / find_usd_matches_optimized:
\* the series handed in (unmatched1, unmatched2) are not read, the arrays are
find_ref_matches_optimized(m, type, arrays, unmatched1, unmatched2) ==
    LET hits == SelectSeq(AmountPairs(m), LAMBDA p :
                    LET x1 == get_optimized(arrays[1], p[1])
                        x2 == get_optimized(arrays[2], p[2])
                    IN x1 # None /\ x2 # None /\ x1 = x2)
    IN [k \in DOMAIN hits |->
          Match(type, hits[k][1], hits[k][2], get_optimized(arrays[1], hits[k][1]), hits[k][3], None)]

find_lc_matches_optimized(m, u1, u2) == find_ref_matches_optimized(m, "LC", m.arrays.lc, u1, u2)
find_po_matches_optimized(m, u1, u2) == find_ref_matches_optimized(m, "PO", m.arrays.po, u1, u2)
find_usd_matches_optimized(m, u1, u2) == find_ref_matches_optimized(m, "USD", m.arrays.usd, u1, u2)

\* get_cached_narration: str(df.iloc[row_idx, 2]).strip()
get_cached_narration(F, idx) == Strip(Str(RowAt(F, idx).c))

\* the narration test with a text of exactly the minimum length let through
NarrationUsableFromMinLen(t) == TextLen(t) >= NarrationMinLen /\ ~IsNanNoneEmpty(t)

\* len(narration) > 10 and narration.lower() not in ['nan', 'none', '']
NarrationUsable(t) == TextLen(t) > NarrationMinLen /\ ~IsNanNoneEmpty(t)

find_narration_matches_optimized(m) ==
    LET hits == SelectSeq(AmountPairs(m), LAMBDA p :
                    LET n1 == get_cached_narration(m.transactions[1], p[1])
                        n2 == get_cached_narration(m.transactions[2], p[2])
                    IN NarrationUsable(n1) /\ NarrationUsable(n2) /\ n1 = n2)
    IN [k \in DOMAIN hits |->
          Match("Narration", hits[k][1], hits[k][2],
                get_cached_narration(m.transactions[1], hits[k][1]).toks, hits[k][3], None)]

\* the narrations find_narration_matches_optimized leaves in _narration_cache
NarrationCacheAfter(m) ==
    LET ps == Range(AmountPairs(m))
        keys == {<<1, p[1]>> : p \in ps} \cup {<<2, p[2]>> : p \in ps}
    IN [k \in keys |-> get_cached_narration(m.transactions[k[1]], k[2])]

\* truthiness of a worksheet amount
Truthy(v) == v # NaN
BlockAmount(b) == IF Truthy(b.amounts.debit) THEN b.amounts.debit ELSE b.amounts.credit

\* first short code of xs that also occurs in ys ("for x in xs: for y in ys: if x == y"), or None
FirstCommon(xs, ys) ==
    LET hit == {k \in DOMAIN xs : xs[k] \in Range(ys)}
    IN IF hit = {} THEN None ELSE <<xs[CHOOSE k \in hit : \A j \in hit : k <= j]>>

\* faulty variant: a reference in one direction is enough
find_interunit_matches_one_way(m, unmatched1, unmatched2) ==
    LET pairs == PairSeq(m.formatting[1], m.formatting[2])
        c1(p) == FirstCommon(p[1].narration_short_codes, p[2].ledger_accounts)
        c2(p) == FirstCommon(p[2].narration_short_codes, p[1].ledger_accounts)
        hits == SelectSeq(pairs, LAMBDA p :
                    /\ p[1].amounts # None /\ p[2].amounts # None
                    /\ \/ Truthy(p[1].amounts.debit) /\ Truthy(p[2].amounts.credit)
                       \/ Truthy(p[1].amounts.credit) /\ Truthy(p[2].amounts.debit)
                    /\ BlockAmount(p[1]) = BlockAmount(p[2])
                    /\ (c1(p) # None \/ c2(p) # None))
    IN [k \in DOMAIN hits |->
          LET p == hits[k] IN
          Match("Interunit", p[1].amounts.row, p[2].amounts.row,
                c1(p) \o <<"<->">> \o c2(p), BlockAmount(p[1]),
                Detail(p[1].amounts.debit, p[1].amounts.credit,
                       p[2].amounts.debit, p[2].amounts.credit,
                       BlockAmount(p[1]), BlockAmount(p[1])))]

\* find_interunit_matches_optimized over the cached formatting data; the
\* series handed in (unmatched1, unmatched2) are not read
find_interunit_matches_optimized(m, unmatched1, unmatched2) ==
    LET pairs == PairSeq(m.formatting[1], m.formatting[2])
        c1(p) == FirstCommon(p[1].narration_short_codes, p[2].ledger_accounts)
        c2(p) == FirstCommon(p[2].narration_short_codes, p[1].ledger_accounts)
        hits == SelectSeq(pairs, LAMBDA p :
                    /\ p[1].amounts # None /\ p[2].amounts # None
                    /\ \/ Truthy(p[1].amounts.debit) /\ Truthy(p[2].amounts.credit)
                       \/ Truthy(p[1].amounts.credit) /\ Truthy(p[2].amounts.debit)
                    /\ BlockAmount(p[1]) = BlockAmount(p[2])
                    /\ c1(p) # None
                    /\ c2(p) # None)
    IN [k \in DOMAIN hits |->
          LET p == hits[k] IN
          Match("Interunit", p[1].amounts.row, p[2].amounts.row,
                c1(p) \o <<"<->">> \o c2(p), BlockAmount(p[1]),
                Detail(p[1].amounts.debit, p[1].amounts.credit,
                       p[2].amounts.debit, p[2].amounts.credit,
                       BlockAmount(p[1]), BlockAmount(p[1])))]

\* create_unmatched_indices_optimized: the File-1 and File-2 indices of the given matches
create_unmatched_indices_optimized(ms) ==
    <<{ms[k].File1_Index : k \in DOMAIN ms}, {ms[k].File2_Index : k \in DOMAIN ms}>>

\* series.copy() with .iloc[idx] = None for every matched idx below len(series)
BlankMatched(series, idxs) ==
    [i \in DOMAIN series |-> IF (i - 1) \in idxs THEN None ELSE series[i]]

(***************************************************************************)
(* Sequential match ids                                                    *)
(***************************************************************************)
DigitChar(d) == <<"0", "1", "2", "3", "4", "5", "6", "7", "8", "9">>[d + 1]

RECURSIVE Decimal(_)
\* str(n) for n >= 0
Decimal(n) == IF n < 10 THEN <<DigitChar(n)>> ELSE Append(Decimal(n \div 10), DigitChar(n % 10))

RECURSIVE ZeroPad(_, _)
ZeroPad(s, w) == IF Len(s) >= w THEN s ELSE ZeroPad(<<"0">> \o s, w)

\* f"M{match_counter:03d}"
FormatMatchId(n) == <<"M">> \o ZeroPad(Decimal(n), IdWidth)

\* ord(c) for the characters of a match id
CharOrd(c) ==
    CASE c = "M" -> 77
      [] OTHER -> 48 + (CHOOSE d \in 0..9 : DigitChar(d) = c)

\* a < b for Python strings
StrLess(a, b) ==
    \E k \in 1..(Min(Len(a), Len(b)) + 1) :
        /\ \A j \in 1..(k - 1) : a[j] = b[j]
        /\ \/ k > Len(a) /\ k <= Len(b)
           \/ k <= Len(a) /\ k <= Len(b) /\ CharOrd(a[k]) < CharOrd(b[k])

\* match_counter when the i-th match of the combined list gets its id
FirstMatchCounter == 1

\* faulty variant: the counter is never incremented
MatchCounterStuck(i) == FirstMatchCounter

\* faulty variant: the counter goes on from the matches of the earlier runs
MatchCounterContinued(i) == Len(Flatten(results)) + i

MatchCounterAt(i) == FirstMatchCounter + (i - 1)

\* for match in all_matches: match['match_id'] = f"M{match_counter:03d}"; match_counter += 1
AssignSequentialIds(ms) ==
    [i \in DOMAIN ms |-> [ms[i] EXCEPT !.match_id = FormatMatchId(MatchCounterAt(i))]]

\* all_matches.sort(key=lambda x: x['match_id']): stable, by string comparison
SortByMatchId(ms) ==
    LET rank == <<>> @@ [i \in DOMAIN ms |->
                    1 + Cardinality({j \in DOMAIN ms :
                          \/ StrLess(ms[j].match_id, ms[i].match_id)
                          \/ ms[j].match_id = ms[i].match_id /\ j < i})]
        at == <<>> @@ [p \in DOMAIN ms |-> CHOOSE i \in DOMAIN ms : rank[i] = p]
    IN [p \in DOMAIN ms |-> ms[at[p]]]

(***************************************************************************)
(* Annotation: create_audit_info and the column updates of                 *)
(* create_matched_files                                                    *)
(***************************************************************************)
AuditHead(m) ==
    CASE m.Match_Type = "Narration" -> <<"Narration", "Match">>
      [] m.Match_Type = "LC" -> <<"LC", "Match:">> \o m.Ref
      [] m.Match_Type = "PO" -> <<"PO", "Match:">> \o m.Ref
      [] m.Match_Type = "Interunit" -> <<"Interunit", "Loan", "Match:">> \o m.Ref
      [] m.Match_Type = "USD" -> <<"USD", "Match:">> \o m.Ref
      [] OTHER -> <<m.Match_Type, "Match">>

\* amount = match.get('File1_Amount', match.get('File2_Amount', 0))
create_audit_info(m) ==
    [head |-> AuditHead(m),
     amount |-> IF m.detail = None THEN 0 ELSE m.detail.File1_Amount]

EmptyColumns(F) ==
    [id |-> [i \in 1..NRows(F) |-> None],
     audit |-> [i \in 1..NRows(F) |-> None],
     type |-> [i \in 1..NRows(F) |-> None]]

\* rows of a block that receive the audit note: i == len(block_rows) - 2
AuditRows(block) == IF Len(block) >= 2 THEN {block[Len(block) - 1]} ELSE {}

\* rows of a block that already carry a match id
ConflictRows(col, block) == {r \in Range(block) : col.id[r + 1] # None}

\* the per-row loop of create_matched_files over one block of one file
AnnotateBlock(col, block, m) ==
    [id |-> [i \in DOMAIN col.id |->
                IF (i - 1) \in Range(block) /\ col.id[i] = None THEN m.match_id ELSE col.id[i]],
     type |-> [i \in DOMAIN col.type |->
                IF (i - 1) \in Range(block) /\ col.id[i] = None THEN m.Match_Type ELSE col.type[i]],
     audit |-> [i \in DOMAIN col.audit |->
                IF (i - 1) \in AuditRows(block) THEN create_audit_info(m) ELSE col.audit[i]]]

(***************************************************************************)
(* State after construction                                                *)
(***************************************************************************)
NewMatcher ==
    [transactions |-> <<None, None>>,
     workbooks |-> FALSE,
     amount_cache |-> <<<<>>, <<>>>>,
     amount_index |-> <<<<>>, <<>>>>,
     extracted |-> None,
     arrays |-> None,
     blocks |-> None,
     formatting |-> None,
     narration_cache |-> <<>>]

NoFound == [Narration |-> <<>>, LC |-> <<>>, PO |-> <<>>, Interunit |-> <<>>, USD |-> <<>>]
NoOutput == [status |-> "none", next |-> 1, cols |-> <<None, None>>, warnings |-> <<>>]
\* named: self.matching_thread of the window is this thread; other: a second
\* MatchingThread object and where its run() stands, or None
NewThread == [started |-> FALSE, running |-> FALSE, is_cancelled |-> FALSE, cancelled_at |-> "never",
              named |-> TRUE, other |-> None]
NewHost == [current_matches |-> None, finished |-> 0, errors |-> 0, steps |-> 0,
            exported |-> <<>>, seen |-> 0, waiting |-> FALSE]

TypeOK ==
    /\ numeric \in BOOLEAN
    /\ run \in 1..(MaxRuns + 1)
    /\ Len(results) <= MaxRuns + 1
    /\ out.status \in {"none", "open", "saved", "raised"}

(***************************************************************************)
(* The command-line pipeline: main() calls find_potential_matches and then *)
(* create_matched_files on one ExcelTransactionMatcher                     *)
(***************************************************************************)
Init ==
    /\ files \in (InputFiles \X (InputFiles \cup {Unreadable, ShortFile})) \cup Examples
    /\ numeric = FALSE
    /\ pc = "idle"
    /\ run = 1
    /\ matcher = NewMatcher
    /\ found = NoFound
    /\ all_matches = <<>>
    /\ results = <<>>
    /\ out = NoOutput
    /\ thread = NewThread
    /\ signals = <<>>
    /\ host = NewHost

\* read_complex_excel: pd.read_excel raises for a file it cannot open, and
\* transactions.iloc[0] raises IndexError when no row follows the metadata rows
read_complex_excel(F) ==
    IF ~F.ok
    THEN [raised |-> TRUE, error |-> "FileNotFoundError", metadata |-> None, transactions |-> None]
    ELSE IF SheetRows(F) <= MetadataRows
    THEN [raised |-> TRUE, error |-> "IndexError", metadata |-> None, transactions |-> None]
    ELSE [raised |-> FALSE, error |-> "", metadata |-> [rows |-> MetadataRows], transactions |-> F]

\* both reads of process_files succeed
BothRead(F1, F2) == ~read_complex_excel(F1).raised /\ ~read_complex_excel(F2).raised

\* the matcher when a read of process_files raised: the frame of File 1 is
\* already stored when the read of File 2 raises
LoadedBeforeFailure(m, F1, F2) ==
    IF ~read_complex_excel(F1).raised
    THEN [m EXCEPT !.transactions = <<read_complex_excel(F1).transactions, None>>]
    ELSE m

\* process_files: read both workbooks, amounts, amount indexes, extraction, blocks, arrays
process_files(m, F1, F2) ==
    LET cache == <<preprocess_all_amounts(F1), preprocess_all_amounts(F2)>>
        ext == IF m.extracted # None THEN m.extracted
               ELSE load_workbooks_and_extract_data_optimized(F1, F2)
    IN [m EXCEPT !.transactions = <<F1, F2>>,
                 !.workbooks = TRUE,
                 !.amount_cache = cache,
                 !.amount_index = <<create_amount_index(cache[1]), create_amount_index(cache[2])>>,
                 !.extracted = ext,
                 !.blocks = IF m.blocks # None THEN m.blocks
                            ELSE <<identify_transaction_blocks(F1), identify_transaction_blocks(F2)>>,
                 !.arrays = ext]

\* faulty variant: the extracted data and the block lists are kept
clear_all_caches_keeping_extracted(m) ==
    [m EXCEPT !.workbooks = FALSE,
              !.formatting = None,
              !.amount_cache = <<<<>>, <<>>>>,
              !.narration_cache = <<>>]

\* clear_all_caches
clear_all_caches(m) ==
    [m EXCEPT !.workbooks = FALSE,
              !.blocks = None,
              !.formatting = None,
              !.extracted = None,
              !.amount_cache = <<<<>>, <<>>>>,
              !.narration_cache = <<>>]

\* get_cached_formatting_data(1) and (2)
get_cached_formatting_data(m) ==
    IF m.formatting # None THEN m.formatting
    ELSE <<analyze_formatting_data(m.transactions[1], m.blocks[1]),
           analyze_formatting_data(m.transactions[2], m.blocks[2])>>

CoreProcessFiles ==
    /\ pc = "idle"
    /\ IF BothRead(files[1], files[2])
       THEN /\ matcher' = process_files(matcher, files[1], files[2])
            /\ pc' = "loaded"
       ELSE /\ matcher' = LoadedBeforeFailure(matcher, files[1], files[2])
            /\ pc' = "raised"
    /\ UNCHANGED <<files, numeric, run, found, all_matches, results, out, thread, signals, host>>

CoreNarration ==
    /\ pc = "loaded"
    /\ found' = [found EXCEPT !.Narration = find_narration_matches_optimized(matcher)]
    /\ matcher' = [matcher EXCEPT !.narration_cache = NarrationCacheAfter(matcher)]
    /\ pc' = "narration_done"
    /\ UNCHANGED <<files, numeric, run, all_matches, results, out, thread, signals, host>>

\* the matches of the strategies that ran before the given one
Earlier(f, type) ==
    Flatten([k \in 1..(StrategyRank(type) - 1) |-> f[Strategies[k]]])

CoreLC ==
    /\ pc = "narration_done"
    /\ LET idx == create_unmatched_indices_optimized(Earlier(found, "LC"))
       IN found' = [found EXCEPT !.LC = find_lc_matches_optimized(matcher,
                        BlankMatched(matcher.extracted.lc[1], idx[1]),
                        BlankMatched(matcher.extracted.lc[2], idx[2]))]
    /\ pc' = "lc_done"
    /\ UNCHANGED <<files, numeric, run, matcher, all_matches, results, out, thread, signals, host>>

CorePO ==
    /\ pc = "lc_done"
    /\ LET idx == create_unmatched_indices_optimized(Earlier(found, "PO"))
       IN found' = [found EXCEPT !.PO = find_po_matches_optimized(matcher,
                        BlankMatched(matcher.extracted.po[1], idx[1]),
                        BlankMatched(matcher.extracted.po[2], idx[2]))]
    /\ pc' = "po_done"
    /\ UNCHANGED <<files, numeric, run, matcher, all_matches, results, out, thread, signals, host>>

CoreInterunit ==
    /\ pc = "po_done"
    /\ LET idx == create_unmatched_indices_optimized(Earlier(found, "Interunit"))
           m == [matcher EXCEPT !.formatting = get_cached_formatting_data(matcher)]
       IN /\ matcher' = m
          /\ found' = [found EXCEPT !.Interunit = find_interunit_matches_optimized(m,
                        BlankMatched(matcher.extracted.interunit[1], idx[1]),
                        BlankMatched(matcher.extracted.interunit[2], idx[2]))]
    /\ pc' = "interunit_done"
    /\ UNCHANGED <<files, numeric, run, all_matches, results, out, thread, signals, host>>

CoreUSD ==
    /\ pc = "interunit_done"
    /\ LET idx == create_unmatched_indices_optimized(Earlier(found, "USD"))
       IN found' = [found EXCEPT !.USD = find_usd_matches_optimized(matcher,
                        BlankMatched(matcher.extracted.usd[1], idx[1]),
                        BlankMatched(matcher.extracted.usd[2], idx[2]))]
    /\ pc' = "usd_done"
    /\ UNCHANGED <<files, numeric, run, matcher, all_matches, results, out, thread, signals, host>>

\* find_aggregated_po_matches_optimized: a lender text naming two or more
\* purchase orders, all of them named by the borrower text
POsOf(t) == SelectSeq(t.toks, LAMBDA w : w \in POWords)
find_aggregated_po_matches_optimized(m) ==
    LET lenderOf(p) ==
            IF extract_amounts_from_strings(RowAt(m.transactions[1], p[1]))[1] > 0 THEN 1 ELSE 2
        hits == SelectSeq(AmountPairs(m), LAMBDA p :
                    LET n == <<get_cached_narration(m.transactions[1], p[1]),
                               get_cached_narration(m.transactions[2], p[2])>>
                        lender_pos == POsOf(n[lenderOf(p)])
                        borrower_pos == POsOf(n[3 - lenderOf(p)])
                    IN /\ Len(lender_pos) >= 2 /\ Len(borrower_pos) >= 1
                       /\ Range(lender_pos) \subseteq Range(borrower_pos))
    IN [k \in DOMAIN hits |->
          Match("Aggregated_PO", hits[k][1], hits[k][2],
                POsOf(get_cached_narration(m.transactions[1], hits[k][1])), hits[k][3], None)]

\* the combination with the sixth step switched on
CombineWithAggregatedPO(f) ==
    f.Narration \o f.LC \o f.PO \o f.Interunit \o f.USD
        \o find_aggregated_po_matches_optimized(matcher)

\* all_matches = narration + lc + po + interunit + usd + aggregated_po ([])
Combine(f) == f.Narration \o f.LC \o f.PO \o f.Interunit \o f.USD \o <<>>

\* the tail of find_potential_matches: combine, assign ids, sort, clear caches, return
CoreReturn ==
    /\ pc = "usd_done"
    /\ all_matches' = SortByMatchId(AssignSequentialIds(Combine(found)))
    /\ matcher' = clear_all_caches(matcher)
    /\ results' = Append(results, all_matches')
    /\ pc' = "returned"
    /\ UNCHANGED <<files, numeric, run, found, out, thread, signals, host>>

\* the pipeline is run once more on the same inputs
CoreRunAgain ==
    /\ pc = "returned"
    /\ run < MaxRuns
    /\ run' = run + 1
    /\ found' = NoFound
    /\ all_matches' = <<>>
    /\ pc' = "idle"
    /\ UNCHANGED <<files, numeric, matcher, results, out, thread, signals, host>>

\* create_matched_files up to the match loop; returns at once when there are no matches
CoreCreateMatchedFiles ==
    /\ pc = "returned"
    /\ IF all_matches = <<>>
       THEN /\ out' = out
            /\ pc' = "done"
       ELSE /\ out' = [status |-> "open", next |-> 1,
                       cols |-> <<EmptyColumns(files[1]), EmptyColumns(files[2])>>,
                       warnings |-> <<>>]
            /\ pc' = "annotating"
    /\ UNCHANGED <<files, numeric, run, matcher, found, all_matches, results, thread, signals, host>>

\* one pass of "for i, match in enumerate(matches)": KeyError when the match
\* has no File1_Debit key, else both blocks are annotated
AnnotateNext(o, ms, F1, F2) ==
    LET m == ms[o.next]
        b1 == get_transaction_block_rows(m.File1_Index, F1)
        b2 == get_transaction_block_rows(m.File2_Index, F2)
        w1 == AscSeq(ConflictRows(o.cols[1], b1))
        w2 == AscSeq(ConflictRows(o.cols[2], b2))
    IN IF m.detail = None
       THEN [o EXCEPT !.status = "raised"]
       ELSE [o EXCEPT !.next = o.next + 1,
                      !.cols = <<AnnotateBlock(o.cols[1], b1, m), AnnotateBlock(o.cols[2], b2, m)>>,
                      !.warnings = o.warnings
                          \o [k \in DOMAIN w1 |-> [file |-> 1, row |-> w1[k], kept |-> o.cols[1].id[w1[k] + 1], refused |-> m.match_id]]
                          \o [k \in DOMAIN w2 |-> [file |-> 2, row |-> w2[k], kept |-> o.cols[2].id[w2[k] + 1], refused |-> m.match_id]]]

CoreAnnotate ==
    /\ pc = "annotating"
    /\ out.next <= Len(all_matches)
    /\ out' = AnnotateNext(out, all_matches, files[1], files[2])
    /\ pc' = IF out'.status = "raised" THEN "raised" ELSE "annotating"
    /\ UNCHANGED <<files, numeric, run, matcher, found, all_matches, results, thread, signals, host>>

\* the two _MATCHED.xlsx files are written
CoreSave ==
    /\ pc = "annotating"
    /\ out.next > Len(all_matches)
    /\ out' = [out EXCEPT !.status = "saved"]
    /\ pc' = "done"
    /\ UNCHANGED <<files, numeric, run, matcher, found, all_matches, results, thread, signals, host>>

Next ==
    \/ CoreProcessFiles
    \/ CoreNarration
    \/ CoreLC
    \/ CorePO
    \/ CoreInterunit
    \/ CoreUSD
    \/ CoreReturn
    \/ CoreRunAgain
    \/ CoreCreateMatchedFiles
    \/ CoreAnnotate
    \/ CoreSave

Spec == Init /\ [][Next]_vars

(***************************************************************************)
(* Properties of the match list                                            *)
(***************************************************************************)
\* the block a matched row belongs to, named by the index of its header row
BlockOf(F, idx) == BlockStartBackwards(F, idx, idx)

SameBlock1(a, b) == BlockOf(files[1], a.File1_Index) = BlockOf(files[1], b.File1_Index)
SameBlock2(a, b) == BlockOf(files[2], a.File2_Index) = BlockOf(files[2], b.File2_Index)

\* C1: no block is used by matches of two different strategies: once a
\* strategy has used a block, no later strategy uses it again.
C1_BlockClaimedByOneStrategy ==
    \A i, j \in DOMAIN all_matches :
        all_matches[i].Match_Type # all_matches[j].Match_Type
            => /\ ~SameBlock1(all_matches[i], all_matches[j])
               /\ ~SameBlock2(all_matches[i], all_matches[j])

\* C2: within one strategy every File-1 block and every File-2 block occurs
\* in at most one accepted match.
C2_BlockOncePerStrategy ==
    \A t \in Range(Strategies) :
        \A i, j \in DOMAIN found[t] :
            i # j => /\ ~SameBlock1(found[t][i], found[t][j])
                     /\ ~SameBlock2(found[t][i], found[t][j])

C10_FirstAnnotationWins ==
    [][(pc = "annotating" /\ out.next <= Len(all_matches)) =>
          LET m == all_matches[out.next]
              block == <<get_transaction_block_rows(m.File1_Index, files[1]),
                         get_transaction_block_rows(m.File2_Index, files[2])>>
          IN \A f \in 1..2 : \A r \in ConflictRows(out.cols[f], block[f]) :
                /\ out'.status # "raised"
                /\ out'.cols[f].id[r + 1] = out.cols[f].id[r + 1]
                /\ out'.cols[f].audit[r + 1] = out.cols[f].audit[r + 1]
                /\ \E k \in DOMAIN out'.warnings :
                      /\ k > Len(out.warnings)
                      /\ out'.warnings[k].file = f
                      /\ out'.warnings[k].row = r
                      /\ out'.warnings[k].refused = m.match_id]_vars

(***************************************************************************)
(* Id assignment as a function of the per-strategy match lists             *)
(***************************************************************************)
\* the k-th match a strategy discovered, for a list of n
Discovered(type, n) == [k \in 1..n |-> Match(type, k, k, None, 1, None)]

FoundWith(c) ==
    [Narration |-> Discovered("Narration", c[1]), LC |-> Discovered("LC", c[2]),
     PO |-> Discovered("PO", c[3]), Interunit |-> Discovered("Interunit", c[4]),
     USD |-> Discovered("USD", c[5])]

\* how many matches each of the five strategies found
MatchCounts ==
    [1..5 -> 0..MaxPerStrategy]
    \cup {<<LargeK - 1, 0, 0, 0, 0>>, <<LargeK - 2, 0, 1, 0, 1>>}

InitIds ==
    /\ files = <<Workbook(<<>>), Workbook(<<>>)>>
    /\ numeric = FALSE
    /\ pc = "combine"
    /\ run = 1
    /\ matcher = NewMatcher
    /\ found \in {FoundWith(c) : c \in MatchCounts}
    /\ all_matches = <<>>
    /\ results = <<>>
    /\ out = NoOutput
    /\ thread = NewThread
    /\ signals = <<>>
    /\ host = NewHost

\* combine the lists, give every match its id, sort by id
AssignAndSort ==
    /\ pc = "combine"
    /\ all_matches' = SortByMatchId(AssignSequentialIds(Combine(found)))
    /\ pc' = "ids_assigned"
    /\ UNCHANGED <<files, numeric, run, matcher, found, results, out, thread, signals, host>>

NextIds == AssignAndSort

SpecIds == InitIds /\ [][NextIds]_vars

\* int(match_id[1:])
RECURSIVE ParseDecimal(_)
ParseDecimal(s) ==
    IF s = <<>> THEN 0
    ELSE 10 * ParseDecimal(SubSeq(s, 1, Len(s) - 1)) + (CharOrd(s[Len(s)]) - CharOrd("0"))
MatchNumber(id) == ParseDecimal(Tail(id))

IsDigit(c) == c \in {DigitChar(d) : d \in 0..9}

\* C4: a run with K matches assigns exactly the ids M001 .. M<K>: every
\* match has one id, "M" and the zero-padded number, the numbers are
\* exactly 1..K and no id is given twice.
C4_IdsAreOneToK ==
    pc = "ids_assigned" =>
        LET K == Len(Combine(found))
            ids == {all_matches[i].match_id : i \in DOMAIN all_matches}
        IN /\ Len(all_matches) = K
           /\ \A id \in ids :
                 /\ Len(id) >= 1 + IdWidth
                 /\ id[1] = "M"
                 /\ \A k \in 2..Len(id) : IsDigit(id[k])
                 /\ Len(id) > 1 + IdWidth => id[2] # "0"
           /\ {MatchNumber(id) : id \in ids} = 1..K
           /\ Cardinality(ids) = K

C4_Witness ==
    /\ pc = "ids_assigned"
    /\ Len(all_matches) = 3
    /\ {all_matches[i].match_id : i \in 1..3} =
          {<<"M", "0", "0", "1">>, <<"M", "0", "0", "2">>, <<"M", "0", "0", "3">>}

\* C5: for any number of matches the final list is in ascending id order,
\* and that order is strategy priority followed by discovery order.
C5_IdOrderIsDiscoveryOrder ==
    pc = "ids_assigned" =>
        /\ \A p \in 1..(Len(all_matches) - 1) :
              StrLess(all_matches[p].match_id, all_matches[p + 1].match_id)
        /\ \A p \in DOMAIN all_matches :
              /\ all_matches[p].Match_Type = Combine(found)[p].Match_Type
              /\ all_matches[p].File1_Index = Combine(found)[p].File1_Index

(***************************************************************************)
(* The stand-alone strategy classes, as the worker thread calls them       *)
(***************************************************************************)
\* find_transaction_block_header: backwards to a row with a date and an amount, else the row itself
RECURSIVE HeaderBackwards(_, _, _)
HeaderBackwards(F, i, dflt) ==
    IF i < 0 THEN dflt
    ELSE IF RowAt(F, i).date /\ (RowAt(F, i).debit # NaN \/ RowAt(F, i).credit # NaN) THEN i
    ELSE HeaderBackwards(F, i - 1, dflt)
find_transaction_block_header(idx, F) == HeaderBackwards(F, idx, idx)

\* meaningful narration text of find_description_row_in_block
Meaningful(cell) ==
    LET t == Strip(Str(cell))
    IN TextLen(t) > NarrationMinLen /\ ~IsNanNoneEmpty(t) /\ ~StartsWithDrCr(t)

\* find_description_row_in_block: nearest meaningful row backwards, else forwards, else None (-1)
find_description_row_in_block(idx, F) ==
    LET back == {i \in 0..idx : Meaningful(RowAt(F, i).c)}
        forth == {i \in (idx + 1)..(NRows(F) - 1) : Meaningful(RowAt(F, i).c)}
    IN IF back # {} THEN CHOOSE i \in back : \A j \in back : j <= i
       ELSE IF forth # {} THEN CHOOSE i \in forth : \A j \in forth : i <= j
       ELSE -1

\* "cell > 0" raises TypeError when the frame holds the cell as a string
CompareRaises(r, num) == ~num /\ (r.debit # NaN \/ r.credit # NaN)

RowAmount(r) == IF r.debit > 0 THEN r.debit ELSE r.credit
IsLender(r) == r.debit > 0
IsBorrower(r) == r.credit > 0
Opposite(r1, r2) == (IsLender(r1) /\ IsBorrower(r2)) \/ (IsBorrower(r1) /\ IsLender(r2))

\* NarrationMatchingLogic: lender amount and borrower amount of a candidate pair agree
NarrationAmountsAgree(r1, r2) ==
    LET lender_amount == IF IsLender(r1) THEN r1.debit ELSE r2.debit
        borrower_amount == IF IsBorrower(r1) THEN r1.credit ELSE r2.credit
    IN Abs(lender_amount - borrower_amount) < ToleranceUnits

\* the narration a row stands for: that of its description row
NarrationOf(F, idx) == Strip(Str(RowAt(F, find_description_row_in_block(idx, F)).c))

\* the first File-2 row NarrationMatchingLogic accepts for a File-1 header (or -1)
NarrationCandidate(F2, n1, r1) ==
    LET ok == {idx2 \in 0..(NRows(F2) - 1) :
                  /\ find_description_row_in_block(idx2, F2) # -1
                  /\ NarrationOf(F2, idx2) = n1
                  /\ LET r2 == RowAt(F2, find_transaction_block_header(idx2, F2))
                     IN /\ RowAmount(r2) > 0
                        /\ Opposite(r1, r2)
                        /\ NarrationAmountsAgree(r1, r2)}
    IN IF ok = {} THEN -1 ELSE CHOOSE i \in ok : \A j \in ok : i <= j

RECURSIVE NarrationFrom(_, _, _, _, _)
\* the loop "for idx1 in range(len(transactions1))" of NarrationMatchingLogic
NarrationFrom(F1, F2, num, idx1, acc) ==
    IF idx1 >= NRows(F1) \/ acc.raised THEN acc
    ELSE LET h1 == find_transaction_block_header(idx1, F1)
             d1 == find_description_row_in_block(idx1, F1)
             r1 == RowAt(F1, h1)
         IN IF idx1 \in acc.processed \/ d1 = -1
            THEN NarrationFrom(F1, F2, num, idx1 + 1, acc)
            ELSE LET n1 == NarrationOf(F1, idx1) IN
                 IF TextLen(n1) < NarrationMinLen \/ IsNanNoneEmpty(n1)
                 THEN NarrationFrom(F1, F2, num, idx1 + 1, acc)
                 ELSE IF CompareRaises(r1, num)
                 THEN [acc EXCEPT !.raised = TRUE]
                 ELSE IF RowAmount(r1) <= 0
                 THEN NarrationFrom(F1, F2, num, idx1 + 1, acc)
                 ELSE LET done == acc.processed \cup {h1, d1}
                                    \cup {i \in 0..(NRows(F1) - 1) : Strip(Str(RowAt(F1, i).c)) = n1}
                          c == NarrationCandidate(F2, n1, r1)
                          h2 == find_transaction_block_header(c, F2)
                          r2 == RowAt(F2, h2)
                          key == <<n1, RowAmount(r1), RowAmount(r2)>>
                          keys == IF key \in Range(acc.keys) THEN acc.keys ELSE Append(acc.keys, key)
                          m == [Match("Narration", h1, h2, n1.toks, RowAmount(r1),
                                      Detail(r1.debit, r1.credit,
                                             IF IsLender(r2) THEN RowAmount(r2) ELSE 0,
                                             IF IsLender(r2) THEN 0 ELSE RowAmount(r2),
                                             RowAmount(r1), RowAmount(r2)))
                                EXCEPT !.match_id = FormatMatchId(CHOOSE k \in DOMAIN keys : keys[k] = key)]
                      IN IF c = -1
                         THEN NarrationFrom(F1, F2, num, idx1 + 1, [acc EXCEPT !.processed = done])
                         ELSE NarrationFrom(F1, F2, num, idx1 + 1,
                                  [acc EXCEPT !.processed = done, !.keys = keys,
                                              !.matches = Append(acc.matches, m)])

\* NarrationMatchingLogic.find_potential_matches(transactions1, transactions2, {}, None)
NarrationMatchingLogic(F1, F2, num) ==
    NarrationFrom(F1, F2, num, 0, [processed |-> {}, keys |-> <<>>, matches |-> <<>>, raised |-> FALSE])

\* LCMatchingLogic.find_potential_matches of the matching_logic package: every
\* row with an LC number against every row with an LC number
LCMatchingLogic(F1, F2, lc1, lc2, num) ==
    LET with1 == AscSeq({i - 1 : i \in {j \in DOMAIN lc1 : lc1[j] # None}})
        with2 == AscSeq({i - 1 : i \in {j \in DOMAIN lc2 : lc2[j] # None}})
        row1(i) == RowAt(F1, find_transaction_block_header(i, F1))
        row2(i) == RowAt(F2, find_transaction_block_header(i, F2))
        raises == \/ \E k \in DOMAIN with1 : CompareRaises(row1(with1[k]), num)
                  \/ with1 # <<>> /\ \E k \in DOMAIN with2 : CompareRaises(row2(with2[k]), num)
        hits == SelectSeq(PairSeq(with1, with2), LAMBDA p :
                    /\ RowAmount(row1(p[1])) = RowAmount(row2(p[2]))
                    /\ Opposite(row1(p[1]), row2(p[2]))
                    /\ lc1[p[1] + 1] = lc2[p[2] + 1])
    IN [raised |-> raises,
        matches |-> IF raises THEN <<>>
                    ELSE [k \in DOMAIN hits |->
                            LET p == hits[k] IN
                            Match("LC", find_transaction_block_header(p[1], F1),
                                  find_transaction_block_header(p[2], F2), lc1[p[1] + 1],
                                  RowAmount(row1(p[1])),
                                  Detail(row1(p[1]).debit, row1(p[1]).credit,
                                         row2(p[2]).debit, row2(p[2]).credit,
                                         RowAmount(row1(p[1])), RowAmount(row2(p[2]))))]]

\* BaseMatchingLogic.validate_match: exactly equal amounts, then opposite sides
validate_match(d1, d2) ==
    /\ d1.amount = d2.amount
    /\ (d1.is_lender /\ d2.is_borrower) \/ (d1.is_borrower /\ d2.is_lender)

\* amounts and sides of the block a row belongs to, from the parsed header amounts
TransactionData(idx, F) ==
    LET h == find_transaction_block_header(idx, F)
        a == extract_amounts_from_strings(RowAt(F, h))
    IN [block_header |-> h, debit |-> a[1], credit |-> a[2],
        amount |-> IF a[1] > 0 THEN a[1] ELSE a[2],
        is_lender |-> a[1] > 0, is_borrower |-> a[2] > 0]

RECURSIVE DedupBlocks(_, _, _)
\* a block already used on either side is not used again by the same strategy
DedupBlocks(ms, used1, used2) ==
    IF ms = <<>> THEN <<>>
    ELSE LET m == Head(ms) IN
         IF m.File1_Index \in used1 \/ m.File2_Index \in used2
         THEN DedupBlocks(Tail(ms), used1, used2)
         ELSE <<m>> \o DedupBlocks(Tail(ms), used1 \cup {m.File1_Index}, used2 \cup {m.File2_Index})

\* POMatchingLogic / USDMatchingLogic of the matching_logic package: equal
\* reference, opposite sides, exactly equal amounts, every block at most once
ReferenceMatchingLogic(type, F1, F2, s1, s2) ==
    LET with1 == AscSeq({i - 1 : i \in {j \in DOMAIN s1 : s1[j] # None}})
        with2 == AscSeq({i - 1 : i \in {j \in DOMAIN s2 : s2[j] # None}})
        hits == SelectSeq(PairSeq(with1, with2), LAMBDA p :
                    /\ validate_match(TransactionData(p[1], F1), TransactionData(p[2], F2))
                    /\ s1[p[1] + 1] = s2[p[2] + 1])
    IN DedupBlocks([k \in DOMAIN hits |->
            LET d1 == TransactionData(hits[k][1], F1)
                d2 == TransactionData(hits[k][2], F2)
            IN Match(type, d1.block_header, d2.block_header, s1[hits[k][1] + 1], d1.amount,
                     Detail(d1.debit, d1.credit, d2.debit, d2.credit, d1.amount, d2.amount))],
          {}, {})

\* InterunitLoanMatcher.find_potential_matches of the matching_logic package:
\* mutual cross-reference of short codes, every block at most once
InterunitLoanMatcher(F1, F2) ==
    DedupBlocks(find_interunit_matches_optimized(
                    [formatting |-> <<analyze_formatting_data(F1, identify_transaction_blocks(F1)),
                                      analyze_formatting_data(F2, identify_transaction_blocks(F2))>>],
                    <<>>, <<>>), {}, {})

(***************************************************************************)
(* The strategy classes applied to a pair of frames                        *)
(***************************************************************************)
LedShort == Text(<<"GEO-UNIT">>, 0)
NarUSD == Text(<<"USD500">>, 0)
NarCode == Text(<<"GEO#1234">>, 0)
NarLC == Text(<<"LC-77">>, 0)
\* the same ledger name and narration, each typed with one trailing space
LedGEOSpace == Text(<<"GEO-TEXTILE-UNIT">>, 1)
NarToGEOSpace == Text(<<"Loan", "GEO#1234", "L/C-123/45">>, 1)

StrategyLibrary ==
    { Block("Dr", 4, LedGEO, NarToGEO, TRUE),
      Block("Cr", 4, LedGEO, NarToGEO, TRUE),
      Block("Cr", 5, LedGEO, NarToGEO, TRUE),
      Block("Cr", 6, LedSTL, NarLC, TRUE),
      Block("Dr", 6, LedSTL, NarLC, TRUE),
      Block("Cr", 4, LedGEOSpace, NarToGEOSpace, TRUE) }

StrategyFiles == {Workbook(bs) : bs \in UNION {[1..k -> StrategyLibrary] : k \in 1..MaxBlocks}}

InitStrategy ==
    /\ files \in StrategyFiles \X StrategyFiles
    /\ numeric \in BOOLEAN
    /\ pc = "s_ready"
    /\ run = 1
    /\ matcher = NewMatcher
    /\ found = NoFound
    /\ all_matches = <<>>
    /\ results = <<>>
    /\ out = NoOutput
    /\ thread = NewThread
    /\ signals = <<>>
    /\ host = NewHost

ApplyNarration ==
    /\ pc = "s_ready"
    /\ LET res == NarrationMatchingLogic(files[1], files[2], numeric)
       IN /\ found' = [found EXCEPT !.Narration = res.matches]
          /\ pc' = IF res.raised THEN "s_raised" ELSE "s_narration"
    /\ UNCHANGED <<files, numeric, run, matcher, all_matches, results, out, thread, signals, host>>

ApplyLC ==
    /\ pc = "s_ready"
    /\ LET res == LCMatchingLogic(files[1], files[2], ExtractSeries(files[1], LCWords),
                                  ExtractSeries(files[2], LCWords), numeric)
       IN /\ found' = [found EXCEPT !.LC = res.matches]
          /\ pc' = IF res.raised THEN "s_raised" ELSE "s_lc"
    /\ UNCHANGED <<files, numeric, run, matcher, all_matches, results, out, thread, signals, host>>

\* process_files and then find_narration_matches_optimized on the loaded frames
ApplyNarrationOptimized ==
    /\ pc = "s_ready"
    /\ BothRead(files[1], files[2])
    /\ matcher' = process_files(matcher, files[1], files[2])
    /\ found' = [found EXCEPT !.Narration = find_narration_matches_optimized(matcher')]
    /\ pc' = "s_optimized"
    /\ UNCHANGED <<files, numeric, run, all_matches, results, out, thread, signals, host>>

NextStrategy == ApplyNarration \/ ApplyLC \/ ApplyNarrationOptimized

SpecStrategy == InitStrategy /\ [][NextStrategy]_vars

\* the amount of a block, read from its header row
HeaderAmount(F, idx) == RowAmount(RowAt(F, idx))

\* C3: for every returned match, whichever strategy produced it, the amount
\* of the File-1 block equals the amount of the File-2 block exactly.
C3_AmountsExactlyEqual ==
    \A t \in Range(Strategies) : \A k \in DOMAIN found[t] :
        HeaderAmount(files[1], found[t][k].File1_Index) = HeaderAmount(files[2], found[t][k].File2_Index)

(***************************************************************************)
(* The GUI: MainWindow starts a MatchingThread, may cancel it, and handles *)
(* the signals the thread emits                                            *)
(***************************************************************************)
ThreadLibrary ==
    { Block("Dr", 4, LedSTL, NarUSD, TRUE),
      Block("Cr", 4, LedSTL, NarUSD, TRUE),
      Block("Cr", 4, LedShort, NarCode, TRUE),
      Block("Cr", 4, LedGEO, NarToGEO, TRUE),
      Block("Dr", 6, LedSTL, NarLC, TRUE) }

ThreadFiles == {Workbook(bs) : bs \in UNION {[1..k -> ThreadLibrary] : k \in 1..MaxBlocks}}

InitThread ==
    /\ files \in ThreadFiles \X (ThreadFiles \cup {Unreadable})
    /\ numeric = FALSE
    /\ pc = "ready"
    /\ run = 1
    /\ matcher = NewMatcher
    /\ found = NoFound
    /\ all_matches = <<>>
    /\ results = <<>>
    /\ out = NoOutput
    /\ thread = NewThread
    /\ signals = <<>>
    /\ host = NewHost

\* faulty variant: the event is emitted without the number of matches
StepCompletedWithoutCount(name, n) == [name |-> "step_completed", step |-> name, count |-> 0, matches |-> <<>>]

\* self.step_completed.emit(step_name, len(matches))
StepCompleted(name, n) == [name |-> "step_completed", step |-> name, count |-> n, matches |-> <<>>]
MatchingFinished(ms) == [name |-> "matching_finished", step |-> "", count |-> Len(ms), matches |-> ms]
ErrorOccurred(stage) == [name |-> "error_occurred", step |-> stage, count |-> 0, matches |-> <<>>]

\* faulty variant: the flag is never looked at
CancelIgnored(t) == FALSE

\* "if self.is_cancelled: return" after a stage
CancelSeen(t) == t.is_cancelled

\* the position after a stage: the run returns when the flag is seen, else goes on
AfterCheck(t, next) == IF CancelSeen(t) THEN "t_returned" ELSE next
ThreadAfterCheck(t) == IF CancelSeen(t) THEN [t EXCEPT !.running = FALSE] ELSE t

\* faulty variant: the matches found so far are delivered before the error
FailedAfterDelivery(stage) ==
    /\ signals' = signals \o <<MatchingFinished(AssignSequentialIds(Combine(found))), ErrorOccurred(stage)>>
    /\ thread' = [thread EXCEPT !.running = FALSE]
    /\ pc' = "t_done"

\* except Exception as e: self.error_occurred.emit(str(e))
Failed(stage) ==
    /\ signals' = Append(signals, ErrorOccurred(stage))
    /\ thread' = [thread EXCEPT !.running = FALSE]
    /\ pc' = "t_done"

\* MainWindow.start_matching
HostStartMatching ==
    /\ pc = "ready"
    /\ thread' = [thread EXCEPT !.started = TRUE, !.running = TRUE]
    /\ pc' = "t_init"
    /\ UNCHANGED <<files, numeric, run, matcher, found, all_matches, results, out, signals, host>>

\* run(): the matcher is constructed
ThreadInit ==
    /\ pc = "t_init"
    /\ matcher' = NewMatcher
    /\ pc' = AfterCheck(thread, "t_process")
    /\ thread' = ThreadAfterCheck(thread)
    /\ UNCHANGED <<files, numeric, run, found, all_matches, results, out, signals, host>>

ThreadProcessFiles ==
    /\ pc = "t_process"
    /\ IF BothRead(files[1], files[2])
       THEN /\ matcher' = process_files(matcher, files[1], files[2])
            /\ pc' = AfterCheck(thread, "t_narration")
            /\ thread' = ThreadAfterCheck(thread)
            /\ signals' = signals
       ELSE /\ matcher' = LoadedBeforeFailure(matcher, files[1], files[2])
            /\ Failed("process_files")
    /\ UNCHANGED <<files, numeric, run, found, all_matches, results, out, host>>

ThreadNarration ==
    /\ pc = "t_narration"
    /\ LET res == NarrationMatchingLogic(matcher.transactions[1], matcher.transactions[2], numeric)
       IN IF res.raised
          THEN /\ found' = found
               /\ Failed("Narration")
          ELSE /\ found' = [found EXCEPT !.Narration = res.matches]
               /\ signals' = Append(signals, StepCompleted("Narration Matching", Len(res.matches)))
               /\ pc' = AfterCheck(thread, "t_lc")
               /\ thread' = ThreadAfterCheck(thread)
    /\ UNCHANGED <<files, numeric, run, matcher, all_matches, results, out, host>>

ThreadLC ==
    /\ pc = "t_lc"
    /\ LET idx == create_unmatched_indices_optimized(Earlier(found, "LC"))
           res == LCMatchingLogic(matcher.transactions[1], matcher.transactions[2],
                                  BlankMatched(matcher.extracted.lc[1], idx[1]),
                                  BlankMatched(matcher.extracted.lc[2], idx[2]), numeric)
       IN IF res.raised
          THEN /\ found' = found
               /\ Failed("LC")
          ELSE /\ found' = [found EXCEPT !.LC = res.matches]
               /\ signals' = Append(signals, StepCompleted("LC Matching", Len(res.matches)))
               /\ pc' = AfterCheck(thread, "t_po")
               /\ thread' = ThreadAfterCheck(thread)
    /\ UNCHANGED <<files, numeric, run, matcher, all_matches, results, out, host>>

ThreadPO ==
    /\ pc = "t_po"
    /\ LET idx == create_unmatched_indices_optimized(Earlier(found, "PO"))
           ms == ReferenceMatchingLogic("PO", matcher.transactions[1], matcher.transactions[2],
                                        BlankMatched(matcher.extracted.po[1], idx[1]),
                                        BlankMatched(matcher.extracted.po[2], idx[2]))
       IN /\ found' = [found EXCEPT !.PO = ms]
          /\ signals' = Append(signals, StepCompleted("PO Matching", Len(ms)))
    /\ pc' = AfterCheck(thread, "t_interunit")
    /\ thread' = ThreadAfterCheck(thread)
    /\ UNCHANGED <<files, numeric, run, matcher, all_matches, results, out, host>>

ThreadInterunit ==
    /\ pc = "t_interunit"
    /\ LET ms == InterunitLoanMatcher(matcher.transactions[1], matcher.transactions[2])
       IN /\ found' = [found EXCEPT !.Interunit = ms]
          /\ signals' = Append(signals, StepCompleted("Interunit Matching", Len(ms)))
    /\ pc' = AfterCheck(thread, "t_usd")
    /\ thread' = ThreadAfterCheck(thread)
    /\ UNCHANGED <<files, numeric, run, matcher, all_matches, results, out, host>>

\* the USD step ends with the last "if self.is_cancelled: return" of run()
ThreadUSD ==
    /\ pc = "t_usd"
    /\ LET idx == create_unmatched_indices_optimized(Earlier(found, "USD"))
           ms == ReferenceMatchingLogic("USD", matcher.transactions[1], matcher.transactions[2],
                                        BlankMatched(matcher.extracted.usd[1], idx[1]),
                                        BlankMatched(matcher.extracted.usd[2], idx[2]))
       IN /\ found' = [found EXCEPT !.USD = ms]
          /\ signals' = Append(signals, StepCompleted("USD Matching", Len(ms)))
    /\ pc' = AfterCheck(thread, "t_finalize")
    /\ thread' = ThreadAfterCheck(thread)
    /\ UNCHANGED <<files, numeric, run, matcher, all_matches, results, out, host>>

\* combine, assign ids, sort, emit matching_finished; run() returns
ThreadFinish ==
    /\ pc = "t_finalize"
    /\ all_matches' = SortByMatchId(AssignSequentialIds(Combine(found)))
    /\ signals' = Append(signals, MatchingFinished(all_matches'))
    /\ thread' = [thread EXCEPT !.running = FALSE]
    /\ pc' = "t_done"
    /\ UNCHANGED <<files, numeric, run, matcher, found, results, out, host>>

\* MainWindow.cancel_matching: cancel() and then wait() for the thread
HostCancel ==
    /\ thread.running
    /\ ~thread.is_cancelled
    /\ thread' = [thread EXCEPT !.is_cancelled = TRUE, !.cancelled_at = pc]
    /\ host' = [host EXCEPT !.waiting = TRUE]
    /\ UNCHANGED <<files, numeric, pc, run, matcher, found, all_matches, results, out, signals>>

RECURSIVE AnnotateAll(_, _, _, _)
\* the whole match loop of create_matched_files and the save
AnnotateAll(o, ms, F1, F2) ==
    IF o.status = "raised" THEN o
    ELSE IF o.next > Len(ms) THEN [o EXCEPT !.status = "saved"]
    ELSE AnnotateAll(AnnotateNext(o, ms, F1, F2), ms, F1, F2)

\* create_output_files_with_progress: create_matched_files under try/except
create_output_files(ms, F1, F2) ==
    AnnotateAll([status |-> "open", next |-> 1,
                 cols |-> <<EmptyColumns(F1), EmptyColumns(F2)>>, warnings |-> <<>>], ms, F1, F2)

\* the GUI thread handles the next queued signal (not while it waits for the worker)
HostHandleSignal ==
    /\ host.seen < Len(signals)
    /\ host.waiting => ~thread.running
    /\ LET sig == signals[host.seen + 1]
           h == [host EXCEPT !.seen = host.seen + 1, !.waiting = FALSE]
       IN CASE sig.name = "matching_finished" ->
                 \* on_matching_finished
                 IF sig.matches # <<>>
                 THEN /\ out' = create_output_files(sig.matches, files[1], files[2])
                      /\ host' = [h EXCEPT !.current_matches = sig.matches,
                                           !.finished = h.finished + 1,
                                           !.exported = IF out'.status = "saved"
                                                        THEN Append(h.exported, sig.matches)
                                                        ELSE h.exported]
                      /\ results' = Append(results, sig.matches)
                 ELSE /\ out' = out
                      /\ host' = [h EXCEPT !.current_matches = sig.matches,
                                           !.finished = h.finished + 1]
                      /\ results' = Append(results, sig.matches)
            [] sig.name = "error_occurred" ->
                 \* on_matching_error
                 /\ host' = [h EXCEPT !.errors = h.errors + 1]
                 /\ UNCHANGED <<out, results>>
            [] OTHER ->
                 \* on_step_completed
                 /\ host' = [h EXCEPT !.steps = h.steps + 1]
                 /\ UNCHANGED <<out, results>>
    /\ UNCHANGED <<files, numeric, pc, run, matcher, found, all_matches, thread, signals>>

NextThread ==
    \/ HostStartMatching
    \/ ThreadInit
    \/ ThreadProcessFiles
    \/ ThreadNarration
    \/ ThreadLC
    \/ ThreadPO
    \/ ThreadInterunit
    \/ ThreadUSD
    \/ ThreadFinish
    \/ HostCancel
    \/ HostHandleSignal

SpecThread == InitThread /\ [][NextThread]_vars

Emitted(name) == {k \in DOMAIN signals : signals[k].name = name}

NothingDelivered ==
    /\ Emitted("matching_finished") = {}
    /\ host.current_matches = None
    /\ host.exported = <<>>
    /\ results = <<>>

StepNames == {"Narration Matching", "LC Matching", "PO Matching", "Interunit Matching", "USD Matching"}

\* C8: a run that is not cancelled ends in exactly one way: matching_finished
\* once with the full match list, or error_occurred once; never both, and
\* never a partial list.
C8_ExactlyOneOutcome ==
    LET fin == Emitted("matching_finished")
        err == Emitted("error_occurred")
    IN /\ Cardinality(fin) + Cardinality(err) <= 1
       /\ host.finished + host.errors <= 1
       /\ (thread.started /\ ~thread.running /\ ~thread.is_cancelled)
             => Cardinality(fin) + Cardinality(err) = 1
       /\ \A k \in fin :
             /\ {signals[j].step : j \in 1..(k - 1)} = StepNames
             /\ Len(signals[k].matches) =
                   Len(found.Narration) + Len(found.LC) + Len(found.PO)
                   + Len(found.Interunit) + Len(found.USD)
             /\ \A t \in Range(Strategies) : \A i \in DOMAIN found[t] :
                   \E p \in DOMAIN signals[k].matches :
                       signals[k].matches[p] = [found[t][i] EXCEPT !.match_id = signals[k].matches[p].match_id]
       /\ host.current_matches # None =>
             \E k \in fin : host.current_matches = signals[k].matches

C8_Witness ==
    /\ pc = "t_done"
    /\ ~thread.is_cancelled
    /\ host.finished = 1
    /\ host.errors = 0
    /\ Len(host.current_matches) >= 2
    /\ host.exported = <<host.current_matches>>

\* C9: a strategy that raises on one block pair does not abort the run: the
\* pair is skipped and the remaining pairs and the later strategies still run.
C9_StrategyErrorDoesNotAbort ==
    \A k \in Emitted("error_occurred") : signals[k].step \notin Range(Strategies)

(***************************************************************************)
(* Properties of the annotated output files                                *)
(***************************************************************************)
\* the rows create_matched_files annotates for a match on side f
MatchBlock(m, f) ==
    get_transaction_block_rows(IF f = 1 THEN m.File1_Index ELSE m.File2_Index, files[f])

\* C11: after annotation every row of both blocks of every match, header
\* row through trailer row, carries that match's id in the Match ID column.
C11_BlockRowsCarryMatchId ==
    (pc = "done" /\ out.status = "saved") =>
        \A k \in DOMAIN all_matches : \A f \in 1..2 :
            \A r \in Range(MatchBlock(all_matches[k], f)) :
                out.cols[f].id[r + 1] = all_matches[k].match_id

\* rows of a block that carry an audit note in the output of side f
AuditNoted(f, block) == {r \in Range(block) : out.cols[f].audit[r + 1] # None}

\* C12: after annotation each matched block, whatever its length, has its audit
\* note on exactly one row of its row range, the second-to-last one, and on no
\* other row of that range.
C12_AuditOnSecondToLastRowOnly ==
    (pc = "done" /\ out.status = "saved") =>
        \A k \in DOMAIN all_matches : \A f \in 1..2 :
            LET b == MatchBlock(all_matches[k], f)
            IN /\ Len(b) >= 2
               /\ AuditNoted(f, b) = {b[Len(b) - 1]}

(* Properties of identify_transaction_blocks *)
\* the rows of a block that are trailer rows of workbook F
TrailerRows(F, block) == {r \in Range(block) : IsBlockEnd(RowAt(F, r))}

\* C13 as stated: every identified block has exactly one trailer row and that
\* row is the last row of the block.
C13_ExactlyOneTrailerLast ==
    matcher.blocks # None =>
        \A f \in 1..2 : \A k \in DOMAIN matcher.blocks[f] :
            LET b == matcher.blocks[f][k]
            IN TrailerRows(files[f], b) = {b[Len(b)]}

\* C13 amended: an identified block has at most one trailer row and a trailer
\* row is the last row of its block; a block has no trailer row only when the
\* row after it starts the next block or the input ends with it.
C13_TrailerLastUnlessCutShort ==
    matcher.blocks # None =>
        \A f \in 1..2 : \A k \in DOMAIN matcher.blocks[f] :
            LET b == matcher.blocks[f][k]
                last == b[Len(b)]
            IN /\ TrailerRows(files[f], b) \subseteq {last}
               /\ TrailerRows(files[f], b) = {} =>
                      \/ last = NRows(files[f]) - 1
                      \/ IsBlockStart(RowAt(files[f], last + 1))

\* a loaded file with a block cut short by the next block start and a block
\* closed by its trailer row
C13_Witness ==
    /\ matcher.blocks # None
    /\ \E f \in 1..2 : \E j, k \in DOMAIN matcher.blocks[f] :
           /\ TrailerRows(files[f], matcher.blocks[f][j]) = {}
           /\ matcher.blocks[f][j][Len(matcher.blocks[f][j])] < NRows(files[f]) - 1
           /\ TrailerRows(files[f], matcher.blocks[f][k]) # {}

\* C14: the blocks identified in a transaction grid never overlap, and every
\* row of every block is a row of the transaction region.
C14_BlocksDisjointInRegion ==
    matcher.blocks # None =>
        \A f \in 1..2 : \A j \in DOMAIN matcher.blocks[f] :
            /\ Range(matcher.blocks[f][j]) \subseteq 0..(NRows(files[f]) - 1)
            /\ \A k \in DOMAIN matcher.blocks[f] :
                   j # k => Range(matcher.blocks[f][j]) \cap Range(matcher.blocks[f][k]) = {}

\* a loaded file with two blocks, neither of which has a trailer row
C14_Witness ==
    /\ matcher.blocks # None
    /\ \E f \in 1..2 :
           /\ Len(matcher.blocks[f]) = 2
           /\ \A k \in 1..2 : TrailerRows(files[f], matcher.blocks[f][k]) = {}

\* what identify_transaction_blocks reports besides its return value: the one
\* DEBUG line with the number of blocks
IdentifyReport(F) ==
    <<[level |-> "DEBUG", blocks |-> Len(identify_transaction_blocks(F))]>>

\* the block starts of F after which the input ends with no trailer row
OpenAtEnd(F) ==
    {s \in 0..(NRows(F) - 1) :
        /\ IsBlockStart(RowAt(F, s))
        /\ \A r \in s..(NRows(F) - 1) : ~IsBlockEnd(RowAt(F, r)) /\ (r > s => ~IsBlockStart(RowAt(F, r)))}

\* the block from row s to the last row of F
ToLastRow(F, s) == [k \in 1..(NRows(F) - s) |-> s + k - 1]

\* C15: when a row starts a block and the input ends before any trailer row,
\* the identifier still emits the block from the start row to the last row and
\* the run reports a BlockIntegrityWarning instead of raising.
C15_OpenBlockEmittedWithWarning ==
    matcher.blocks # None =>
        \A f \in 1..2 : \A s \in OpenAtEnd(files[f]) :
            /\ \E k \in DOMAIN matcher.blocks[f] : matcher.blocks[f][k] = ToLastRow(files[f], s)
            /\ \E k \in DOMAIN IdentifyReport(files[f]) :
                   IdentifyReport(files[f])[k].level = "BlockIntegrityWarning"

(* Properties of the match lists the strategies return *)
\* C16: every match in the list a strategy returns has no match id; ids are
\* set only by the id-assignment step that runs after all strategies.
C16_StrategyMatchesHaveNoId ==
    \A t \in Range(Strategies) : \A k \in DOMAIN found[t] : found[t][k].match_id = None

(* Properties of the Narration strategy *)
\* the text a Narration match was made on
MatchedNarration(m) == Text(m.Ref, 0)

\* the rows of a block of F whose description cell reads t once trimmed
RowsReading(F, block, t) == {i \in Range(block) : Strip(Str(RowAt(F, i).c)) = t}

\* C17: a pair is accepted by the Narration strategy only on a narration text
\* that is longer than 10 characters and is not empty, "nan" or "none", and
\* that both blocks hold; a text of 10 characters or fewer yields no match.
C17_NarrationLongerThanTen ==
    \A k \in DOMAIN found.Narration :
        LET m == found.Narration[k]
            t == MatchedNarration(m)
        IN /\ TextLen(t) > NarrationMinLen
           /\ ~IsNanNoneEmpty(t)
           /\ \E i \in 0..(NRows(files[1]) - 1) : Strip(Str(RowAt(files[1], i).c)) = t
           /\ \E i \in 0..(NRows(files[2]) - 1) : Strip(Str(RowAt(files[2], i).c)) = t

\* a lender and a borrower with the same amount and the same text of exactly
\* 10 characters went through the strategy and no match came out
C17_Witness ==
    /\ pc = "s_optimized"
    /\ found.Narration = <<>>
    /\ \E i \in 0..(NRows(files[1]) - 1) : \E j \in 0..(NRows(files[2]) - 1) :
           LET r1 == RowAt(files[1], i)
               r2 == RowAt(files[2], j)
           IN /\ IsBlockStart(r1) /\ IsBlockStart(r2)
              /\ Opposite(r1, r2)
              /\ RowAmount(r1) = RowAmount(r2)
              /\ get_cached_narration(files[1], i) = get_cached_narration(files[2], j)
              /\ TextLen(get_cached_narration(files[1], i)) = NarrationMinLen

\* C18: two blocks whose narration texts differ by a trailing space do not
\* match under the Narration strategy: the cells a Narration match was made
\* on read the same, trailing spaces included.
C18_TrailingSpaceDoesNotMatch ==
    \A k \in DOMAIN found.Narration :
        LET m == found.Narration[k]
            t == MatchedNarration(m)
        IN \A i \in RowsReading(files[1], MatchBlock(m, 1), t) :
               \A j \in RowsReading(files[2], MatchBlock(m, 2), t) :
                   Str(RowAt(files[1], i).c) = Str(RowAt(files[2], j).c)

(* Properties of loading *)
\* the input files process_files reads and fails on
FailedLoads ==
    {f \in 1..2 :
        /\ \A g \in 1..(f - 1) : ~read_complex_excel(files[g]).raised
        /\ ~files[f].ok \/ SheetRows(files[f]) < MetadataRows + 1}

\* C19: loading a file that cannot be opened or has fewer than 9 rows fails
\* with a MalformedInput error and returns no partial result, neither
\* metadata nor a transaction grid.
C19_MalformedInputNoPartialResult ==
    pc # "idle" =>
        \A f \in FailedLoads :
            /\ read_complex_excel(files[f]).raised
            /\ read_complex_excel(files[f]).error = "MalformedInput"
            /\ read_complex_excel(files[f]).metadata = None
            /\ read_complex_excel(files[f]).transactions = None
            /\ matcher.transactions[f] = None
            /\ pc = "raised"

(* Properties of the progress events *)
\* the step_completed events emitted so far, in the order of emission
StepEvents == SelectSeq(signals, LAMBDA sig : sig.name = "step_completed")

\* the step name matching_thread gives a strategy
StepName(type) == type \o " Matching"

\* C20: in every run that completes, exactly one step_completed event is
\* emitted per strategy, with that strategy's match count, in the order
\* Narration, LC, PO, Interunit, USD.
C20_OneStepEventPerStrategyInOrder ==
    (\E k \in DOMAIN signals : signals[k].name = "matching_finished") =>
        /\ Len(StepEvents) = Len(Strategies)
        /\ \A j \in DOMAIN Strategies :
               /\ StepEvents[j].step = StepName(Strategies[j])
               /\ StepEvents[j].count = Len(found[Strategies[j]])

\* a completed run in which some strategy found matches and some found none
C20_Witness ==
    /\ \E k \in DOMAIN signals : signals[k].name = "matching_finished"
    /\ \E j \in DOMAIN StepEvents : StepEvents[j].count > 0
    /\ \E j \in DOMAIN StepEvents : StepEvents[j].count = 0

(* Properties of the returned matches *)
\* the header row of the block a match uses in file f
MatchHeader(m, f) ==
    RowAt(files[f], BlockOf(files[f], IF f = 1 THEN m.File1_Index ELSE m.File2_Index))

\* C21: in every match the pipeline returns one block is a Lender (debit > 0)
\* and the other a Borrower (credit > 0); no match pairs two Lenders or two
\* Borrowers.
C21_OppositeSides ==
    \A k \in DOMAIN all_matches :
        Opposite(MatchHeader(all_matches[k], 1), MatchHeader(all_matches[k], 2))

\* the pipeline returned matches for files that also hold two blocks of the
\* same side with the same amount and the same LC number
C21_Witness ==
    /\ pc = "returned"
    /\ all_matches # <<>>
    /\ \E i \in 0..(NRows(files[1]) - 1) : \E j \in 0..(NRows(files[2]) - 1) :
           LET r1 == RowAt(files[1], i)
               r2 == RowAt(files[2], j)
           IN /\ IsBlockStart(r1) /\ IsBlockStart(r2)
              /\ ~Opposite(r1, r2)
              /\ RowAmount(r1) = RowAmount(r2)
              /\ get_optimized(matcher.arrays.lc[1], i) # None
              /\ get_optimized(matcher.arrays.lc[1], i) = get_optimized(matcher.arrays.lc[2], j)

\* the match ids that appear in the Match ID column of the output of file f
OutputIds(f) == {out.cols[f].id[i] : i \in DOMAIN out.cols[f].id} \ {None}

\* C22: once the output files are created, the Match ID column of the File 1
\* output and that of the File 2 output hold the same set of match ids.
C22_SameIdsInBothOutputs ==
    (pc = "done" /\ out.status = "saved") => OutputIds(1) = OutputIds(2)

(* Properties of the Interunit strategy *)
\* the rows of the identified block of file f that holds row idx
IdentifiedBlock(f, idx) ==
    LET bs == identify_transaction_blocks(files[f])
    IN Range(bs[CHOOSE k \in DOMAIN bs : idx \in Range(bs[k])])

\* the short codes quoted in the narration rows (italic, not bold) of a block
QuotedCodes(f, rows) ==
    {c \in CodeWords : \E i \in rows :
        LET r == RowAt(files[f], i) IN ~r.bold /\ r.italic /\ c \in Range(r.c.toks)}

\* the short codes of the ledger accounts (bold, not italic) of a block
OwnCodes(f, rows) ==
    {interunit_account_mapping[k][2] : k \in
        {j \in DOMAIN interunit_account_mapping : \E i \in rows :
            LET r == RowAt(files[f], i)
            IN r.bold /\ ~r.italic /\ interunit_account_mapping[j][1] \in Range(r.c.toks)}}

\* the narration of each block quotes a ledger short code of the other
MutualReference(rows1, rows2) ==
    /\ QuotedCodes(1, rows1) \cap OwnCodes(2, rows2) # {}
    /\ QuotedCodes(2, rows2) \cap OwnCodes(1, rows1) # {}

\* C23: the Interunit strategy accepts a pair only on a mutual cross-reference
\* (each block's narration contains a ledger short code of the other block),
\* opposite sides and exactly equal amounts.
C23_InterunitMutualReference ==
    \A k \in DOMAIN found.Interunit :
        LET m == found.Interunit[k]
        IN /\ MutualReference(IdentifiedBlock(1, m.File1_Index), IdentifiedBlock(2, m.File2_Index))
           /\ Opposite(MatchHeader(m, 1), MatchHeader(m, 2))
           /\ RowAmount(MatchHeader(m, 1)) = RowAmount(MatchHeader(m, 2))

\* the Interunit strategy ran over two blocks of opposite sides and equal
\* amounts of which only one quotes the other, and returned nothing
C23_Witness ==
    /\ pc = "interunit_done"
    /\ found.Interunit = <<>>
    /\ \E i \in 0..(NRows(files[1]) - 1) : \E j \in 0..(NRows(files[2]) - 1) :
           LET r1 == RowAt(files[1], i)
               r2 == RowAt(files[2], j)
           IN /\ IsBlockStart(r1) /\ IsBlockStart(r2)
              /\ Opposite(r1, r2)
              /\ RowAmount(r1) = RowAmount(r2)
              /\ QuotedCodes(2, IdentifiedBlock(2, j)) \cap OwnCodes(1, IdentifiedBlock(1, i)) # {}
              /\ QuotedCodes(1, IdentifiedBlock(1, i)) \cap OwnCodes(2, IdentifiedBlock(2, j)) = {}

(* The worked examples *)
\* C24: a debit of 5000 "Payment against L/C-123/45 for steel" against a
\* credit of 5000 "Settlement of L/C-123/45": the Narration strategy finds
\* nothing and the LC strategy finds exactly one match, numbered M001.
C24_LCExampleOneMatchM001 ==
    (files = LCExample /\ pc = "returned")
        => /\ found.Narration = <<>>
           /\ Len(found.LC) = 1
           /\ \E k \in DOMAIN all_matches :
                  all_matches[k].Match_Type = "LC" /\ all_matches[k].match_id = "M001"

\* C25: with the Aggregated PO step off, a debit of 1000 naming two purchase
\* orders against two credits of 500 naming one each gives no match at all,
\* and no returned match has the type Aggregated PO.
C25_NoAggregatedPO ==
    /\ (files = POExample /\ pc \in {"usd_done", "returned", "done"})
            => Combine(found) = <<>> /\ (pc # "usd_done" => results[Len(results)] = <<>>)
    /\ \A r \in DOMAIN results : \A k \in DOMAIN results[r] :
            results[r][k].Match_Type # "Aggregated_PO"

\* the example has been run to its end and returned nothing
C25_Witness ==
    /\ files = POExample
    /\ pc = "done"
    /\ Len(results) = MaxRuns
    /\ \A r \in DOMAIN results : results[r] = <<>>

(* The amount-indexed LC matcher against the nested loop *)
\* the block pairs a match list accepts
AcceptedPairs(ms) == {<<ms[k].File1_Index, ms[k].File2_Index>> : k \in DOMAIN ms}

\* find_lc_matches_optimized of a matcher that has loaded the two files
OptimizedLC(F1, F2) ==
    find_lc_matches_optimized(process_files(NewMatcher, F1, F2),
                              ExtractSeries(F1, LCWords), ExtractSeries(F2, LCWords))

\* C26: on every pair of inputs the amount-indexed matcher
\* find_lc_matches_optimized accepts exactly the block pairs that the nested
\* loop LCMatchingLogic.find_potential_matches accepts.
C26_OptimizedLCAcceptsSamePairs ==
    pc = "s_lc" => AcceptedPairs(OptimizedLC(files[1], files[2])) = AcceptedPairs(found.LC)

(***************************************************************************)
(* Run Match pressed while a MatchingThread runs: the button stays enabled *)
(* (set_processing_state does nothing) and start_matching tests nothing    *)
(***************************************************************************)
\* a MatchingThread that is not the one the actions below step
Parked(t, position, m, f, ms) ==
    [pc |-> position, matcher |-> m, found |-> f, all_matches |-> ms,
     started |-> t.started, running |-> t.running,
     is_cancelled |-> t.is_cancelled, cancelled_at |-> t.cancelled_at]

\* MainWindow.start_matching while self.matching_thread runs: a new thread
\* is created, stored in self.matching_thread and started; the earlier
\* thread object is let go and its run() goes on
HostStartMatchingWhileRunning ==
    /\ thread.named
    /\ thread.running
    /\ thread.other = None
    /\ ~host.waiting
    /\ thread' = [started |-> TRUE, running |-> TRUE, is_cancelled |-> FALSE,
                  cancelled_at |-> "never", named |-> TRUE,
                  other |-> Parked(thread, pc, matcher, found, all_matches)]
    /\ pc' = "t_init"
    /\ found' = NoFound
    /\ all_matches' = <<>>
    /\ UNCHANGED <<files, numeric, run, matcher, results, out, signals, host>>

\* the operating system lets the other thread run
SwitchThread ==
    /\ thread.other # None
    /\ pc' = thread.other.pc
    /\ matcher' = thread.other.matcher
    /\ found' = thread.other.found
    /\ all_matches' = thread.other.all_matches
    /\ thread' = [started |-> thread.other.started, running |-> thread.other.running,
                  is_cancelled |-> thread.other.is_cancelled,
                  cancelled_at |-> thread.other.cancelled_at,
                  named |-> ~thread.named,
                  other |-> Parked(thread, pc, matcher, found, all_matches)]
    /\ UNCHANGED <<files, numeric, run, results, out, signals, host>>

RestartFiles == {Workbook(<<b>>) : b \in ThreadLibrary}

InitRestart ==
    /\ files \in RestartFiles \X (RestartFiles \cup {Unreadable})
    /\ numeric = FALSE
    /\ pc = "ready"
    /\ run = 1
    /\ matcher = NewMatcher
    /\ found = NoFound
    /\ all_matches = <<>>
    /\ results = <<>>
    /\ out = NoOutput
    /\ thread = NewThread
    /\ signals = <<>>
    /\ host = NewHost

\* the window acts on the thread self.matching_thread names
WindowCancel == thread.named /\ HostCancel
WindowHandleSignal == thread.named /\ HostHandleSignal

NextRestart ==
    \/ HostStartMatching
    \/ HostStartMatchingWhileRunning
    \/ SwitchThread
    \/ ThreadInit
    \/ ThreadProcessFiles
    \/ ThreadNarration
    \/ ThreadLC
    \/ ThreadPO
    \/ ThreadInterunit
    \/ ThreadUSD
    \/ ThreadFinish
    \/ WindowCancel
    \/ WindowHandleSignal

SpecRestart == InitRestart /\ [][NextRestart]_vars

\* C27: at most one matching thread runs at any time; start_matching while
\* an earlier MatchingThread is still running never leaves two runs executing.
C27_AtMostOneThreadRunning ==
    ~(thread.other # None /\ thread.running /\ thread.other.running)

(* The extracted series against the rows of the frame *)
\* position i of a series holds what the narration cell of frame row i gives
SeriesReadsOwnRow(F, series, Pattern) ==
    \A i \in 0..(Len(series) - 1) :
        get_optimized(series, i) = FirstWordIn(RowAt(F, i).c.toks, Pattern)

\* C28: the value at position i of every extracted series (LC, PO, USD,
\* inter-unit code) was extracted from the narration cell of the row with
\* DataFrame index i, the row the block identifier calls i (Excel row i + 10).
C28_SeriesAlignedWithFrame ==
    matcher.extracted # None =>
        \A f \in 1..2 :
            /\ SeriesReadsOwnRow(files[f], matcher.extracted.lc[f], LCWords)
            /\ SeriesReadsOwnRow(files[f], matcher.extracted.po[f], POWords)
            /\ SeriesReadsOwnRow(files[f], matcher.extracted.usd[f], USDWords)
            /\ SeriesReadsOwnRow(files[f], matcher.extracted.interunit[f], CodeWords)

(* Segmentation against the rows annotation covers *)
\* C29: for every block identify_transaction_blocks reports with first row
\* h, get_transaction_block_rows(h) returns exactly the rows of that block.
C29_BlockRowsAgreeWithSegmentation ==
    \A f \in 1..2 :
        LET bs == identify_transaction_blocks(files[f])
        IN \A k \in DOMAIN bs :
              get_transaction_block_rows(bs[k][1], files[f]) = bs[k]

(* The caches of a matcher across runs *)
\* nothing is cached: no workbook, block list, formatting data, amount
\* cache, narration cache or extracted data
CachesEmpty(m) ==
    /\ ~m.workbooks
    /\ m.blocks = None
    /\ m.formatting = None
    /\ m.extracted = None
    /\ m.amount_cache = <<<<>>, <<>>>>
    /\ m.narration_cache = <<>>

\* what the caches hold was computed from the files of this run
CachesOfThisRun(m) ==
    /\ m.blocks = <<identify_transaction_blocks(files[1]), identify_transaction_blocks(files[2])>>
    /\ m.extracted = load_workbooks_and_extract_data_optimized(files[1], files[2])
    /\ m.amount_cache = <<preprocess_all_amounts(files[1]), preprocess_all_amounts(files[2])>>
    /\ m.formatting # None =>
           m.formatting = <<analyze_formatting_data(files[1], m.blocks[1]),
                            analyze_formatting_data(files[2], m.blocks[2])>>
    /\ \A k \in DOMAIN m.narration_cache :
           m.narration_cache[k] = get_cached_narration(files[k[1]], k[2])

====
